---------------------------- MODULE Spec2Model ----------------------------
(***************************************************************************)
(* Discrete-event simulators of src/Lab5: the packet-counting leaky bucket *)
(* (LB), the bit-counting leaky bucket (BLB), the packet-counting token    *)
(* bucket (TB), the bit-counting token bucket (BTB) and the single-server  *)
(* packet switch (PS).                                                     *)
(*                                                                         *)
(* Time is counted in integer time units; a rate 1/X of the source is      *)
(* represented by its period X.  An exponential sample is any value >= 0   *)
(* (numpy's exponential can return 0.0), drawn from 0..MaxGap.             *)
(***************************************************************************)
EXTENDS Integers, Sequences, FiniteSets, TLC

(* ------------------------------ bounds -------------------------------- *)
MaxRunTime == 3
MaxGap == 3
MaxZeros == 1
MaxBucket == 2
MaxRunLength == 2
MaxOtherOps == 2

(* ------------------- parameter values that are explored --------------- *)
Periods == {1, 2}                   \* tick periods, in time units
PacketSizeSets == {{1}, {2}, {1, 2}}  \* packet_sizes, in bits
BitRates == {1, 2}                  \* output_rate / token_rate, in bits per time unit
TokenBucketBits == {0, 1, 3}        \* token_bucket_size of the bit-counting token bucket
LinkRates == {1, 2}                 \* link_rate, in bits per time unit
SwitchGaps == {1, 2}                \* inter-arrival samples of the packet switch
ServiceTimes == {1, 2}              \* sampled packet size / link_rate

(* --------------------------- event types ------------------------------ *)
EVENT_PACKET_ARRIVAL == "PACKET_ARRIVAL"
EVENT_CLOCK_TICK == "CLOCK_TICK"
EVENT_TOKEN_GENERATION == "TOKEN_GENERATION"
EVENT_PACKET_DEPARTURE == "PACKET_DEPARTURE"

NoPacket == [id |-> 0]

VARIABLES
    params,                 \* construction parameters of the instance
    pc,                     \* "new" (constructed), "loop" (in run's event loop), "done"
    current_time,
    event_queue,            \* the heapq list
    packet_queue,           \* packet_queue / data_bucket
    bit_counter,
    token_bucket,
    last_token_update,
    packets_arrived,
    packets_dropped,        \* packets_dropped / packets_lost
    packets_transmitted,
    bits_transmitted,
    total_queue_occupancy,  \* total_queue_occupancy / total_queue_time
    last_event_time,        \* last_event_time / last_stat_time
    server_busy,
    packet_in_service,
    packets_departed,
    total_delay,
    total_queue_delay,
    total_service_time,
    nsched,                 \* number of events scheduled so far (scheduling order)
    zeros,                  \* number of zero samples drawn so far
    np_random,              \* state of numpy's global generator (np.random)
    phase,                  \* "single", or "first" / "second" run of a seeded pair
    other_ops,              \* constructions / draws of other instances in between
    trace,                  \* events dispatched by the run of a seeded pair
    ref                     \* trace and results of the first run of a seeded pair

\* state of the token buckets, of the bit counters and of the packet switch
tokvars == <<token_bucket, last_token_update>>
psvars == <<server_busy, packet_in_service, packets_departed, total_delay,
            total_queue_delay, total_service_time>>

simvars == <<pc, current_time, event_queue, packet_queue, bit_counter, tokvars,
             packets_arrived, packets_dropped, packets_transmitted,
             bits_transmitted, total_queue_occupancy, last_event_time, psvars, nsched>>

pairvars == <<np_random, phase, other_ops, trace, ref>>

vars == <<params, simvars, zeros, pairvars>>

model == params.model
bucket_size == params.bucket_size
run_time == params.run_time
tick_period == params.tick_period
n == params.n
packet_sizes == params.packet_sizes
token_bucket_size == params.token_bucket_size
token_rate == params.token_rate
run_length == params.run_length
link_rate == params.link_rate

(* ------------------------------ Event --------------------------------- *)
\* Event(time, event_type, data); seq records the order of scheduling.
Event(time, event_type, seq, packet) ==
    [time |-> time, event_type |-> event_type, seq |-> seq, packet |-> packet]

\* mutants of Event.__lt__: the comparison reversed, and ties counted as smaller
Lt_reversed(a, b) == a.time > b.time

Lt_or_equal(a, b) == a.time <= b.time

\* Event.__lt__
Lt(a, b) == a.time < b.time

(* ------------------------------ heapq --------------------------------- *)
\* Positions are 0-based as in heapq; heap[pos + 1] is the list element.
RECURSIVE siftdown(_, _, _, _)
siftdown(heap, startpos, pos, newitem) ==
    IF pos > startpos
    THEN LET parentpos == (pos - 1) \div 2
             parent == heap[parentpos + 1]
         IN  IF Lt(newitem, parent)
             THEN siftdown([heap EXCEPT ![pos + 1] = parent], startpos, parentpos, newitem)
             ELSE [heap EXCEPT ![pos + 1] = newitem]
    ELSE [heap EXCEPT ![pos + 1] = newitem]

RECURSIVE siftup_loop(_, _, _)
siftup_loop(heap, pos, endpos) ==
    LET childpos == 2 * pos + 1
        rightpos == childpos + 1
        c == IF rightpos < endpos /\ ~Lt(heap[childpos + 1], heap[rightpos + 1])
             THEN rightpos ELSE childpos
    IN  IF childpos < endpos
        THEN siftup_loop([heap EXCEPT ![pos + 1] = heap[c + 1]], c, endpos)
        ELSE <<heap, pos>>

siftup(heap, pos) ==
    LET newitem == heap[pos + 1]
        r == siftup_loop(heap, pos, Len(heap))
    IN  siftdown(r[1], pos, r[2], newitem)

heappush(heap, item) ==
    siftdown(Append(heap, item), 0, Len(heap), item)

\* heappop returns <<item, heap>>
heappop(heap) ==
    LET lastelt == heap[Len(heap)]
        rest == SubSeq(heap, 1, Len(heap) - 1)
    IN  IF rest # <<>>
        THEN <<heap[1], siftup([rest EXCEPT ![1] = lastelt], 0)>>
        ELSE <<lastelt, rest>>

\* schedule_event
schedule_event(heap, event) == heappush(heap, event)

(* ---------------------------- parameters ------------------------------ *)
\* samples of generate_exponential available after z zero samples
Samples(z) == IF z < MaxZeros THEN 0..MaxGap ELSE 1..MaxGap

\* the fields an instance does not have are 0 / {}
\* random_seed = -1 is None
Parameters(m, b, t, x, r, s, tb, tr, rl, lr) ==
    [model |-> m, bucket_size |-> b, run_time |-> t, tick_period |-> x,
     output_rate |-> r, n |-> r * x, packet_sizes |-> s, token_bucket_size |-> tb,
     token_rate |-> tr, run_length |-> rl, link_rate |-> lr, random_seed |-> -1]

\* LeakyBucketSimulator(bucket_size, output_rate, arrival_rate, run_time):
\* tick_period = 1 / output_rate
LBParams ==
    {Parameters("LB", b, t, x, 0, {}, 0, 0, 0, 0) :
        b \in 0..MaxBucket, t \in 1..MaxRunTime, x \in Periods}

\* BitCountingLeakyBucket(output_rate, arrival_rate, packet_sizes, bucket_size,
\* clock_period, run_time): n = output_rate * clock_period
BLBParams ==
    {Parameters("BLB", b, t, x, r, s, 0, 0, 0, 0) :
        b \in 1..MaxBucket, t \in 2..MaxRunTime, x \in Periods,
        r \in BitRates, s \in PacketSizeSets}

(* ------------------------------ __init__ ------------------------------ *)
Constructed ==
    /\ pc = "new"
    /\ current_time = 0
    /\ event_queue = <<>>
    /\ packet_queue = <<>>
    /\ bit_counter = 0
    /\ token_bucket = 0
    /\ last_token_update = 0
    /\ packets_arrived = 0
    /\ packets_dropped = 0
    /\ packets_transmitted = 0
    /\ bits_transmitted = 0
    /\ total_queue_occupancy = 0
    /\ last_event_time = 0
    /\ server_busy = FALSE
    /\ packet_in_service = NoPacket
    /\ packets_departed = 0
    /\ total_delay = 0
    /\ total_queue_delay = 0
    /\ total_service_time = 0
    /\ nsched = 0

(* --------------------------- shared pieces ---------------------------- *)
\* mutant of update_statistics: the queue length is weighted by the clock, not
\* by the time since the last update
update_statistics_since_zero(now) ==
    /\ total_queue_occupancy' = total_queue_occupancy + Len(packet_queue) * now
    /\ last_event_time' = now

\* update_statistics, evaluated with the clock value `now`
update_statistics(now) ==
    /\ total_queue_occupancy' =
           total_queue_occupancy + Len(packet_queue) * (now - last_event_time)
    /\ last_event_time' = now

\* mutant of the handlers' scheduling: the horizon check is left out
schedule_unchecked(heap, time, event_type) ==
    schedule_event(heap, Event(time, event_type, nsched, NoPacket))

\* mutant of the handlers' scheduling: an event at the horizon is scheduled too
schedule_if_not_past_horizon(heap, time, event_type) ==
    IF time <= run_time
    THEN schedule_event(heap, Event(time, event_type, nsched, NoPacket))
    ELSE heap

\* "schedule next ..." of a handler: the event is created only before the horizon
schedule_if_before_horizon(heap, time, event_type) ==
    IF time < run_time
    THEN schedule_event(heap, Event(time, event_type, nsched, NoPacket))
    ELSE heap

(* ----------------- leaky buckets: run (initial events) ---------------- *)
Leaky_run_start(first_arrival) ==
    /\ model \in {"LB", "BLB"}
    /\ pc = "new"
    /\ event_queue' =
           schedule_event(
               schedule_event(event_queue,
                   Event(first_arrival, EVENT_PACKET_ARRIVAL, nsched, NoPacket)),
               Event(0, EVENT_CLOCK_TICK, nsched + 1, NoPacket))
    /\ nsched' = nsched + 2
    /\ pc' = "loop"
    /\ UNCHANGED <<current_time, packet_queue, bit_counter, tokvars, packets_arrived,
                   packets_dropped, packets_transmitted, bits_transmitted,
                   total_queue_occupancy, last_event_time, psvars>>

\* one iteration of the event loop that dispatches an event: the pop, the
\* statistics update (before the clock is advanced) and the horizon check
Leaky_dispatch(event_type) ==
    /\ model \in {"LB", "BLB"}
    /\ pc = "loop"
    /\ event_queue # <<>>
    /\ heappop(event_queue)[1].event_type = event_type
    /\ heappop(event_queue)[1].time < run_time
    /\ update_statistics(current_time)
    /\ current_time' = heappop(event_queue)[1].time

\* mutant of Leaky_run_break: the event at the horizon is put back and the loop
\* goes on
Leaky_run_break_ignored ==
    /\ model \in {"LB", "BLB"}
    /\ pc = "loop"
    /\ event_queue # <<>>
    /\ heappop(event_queue)[1].time >= run_time
    /\ pc' = "loop"
    /\ UNCHANGED <<current_time, event_queue, packet_queue, bit_counter, tokvars,
                   packets_arrived, packets_dropped, packets_transmitted,
                   bits_transmitted, total_queue_occupancy, last_event_time, psvars,
                   nsched>>

\* the popped event is at or past the horizon: break
Leaky_run_break ==
    /\ model \in {"LB", "BLB"}
    /\ pc = "loop"
    /\ event_queue # <<>>
    /\ heappop(event_queue)[1].time >= run_time
    /\ update_statistics(current_time)
    /\ current_time' = heappop(event_queue)[1].time
    /\ event_queue' = heappop(event_queue)[2]
    /\ pc' = "done"
    /\ UNCHANGED <<packet_queue, bit_counter, tokvars, packets_arrived,
                   packets_dropped, packets_transmitted, bits_transmitted, psvars,
                   nsched>>

\* the event queue is empty: the loop ends
Leaky_run_exit ==
    /\ model \in {"LB", "BLB"}
    /\ pc = "loop"
    /\ event_queue = <<>>
    /\ pc' = "done"
    /\ UNCHANGED <<current_time, event_queue, packet_queue, bit_counter, tokvars,
                   packets_arrived, packets_dropped, packets_transmitted,
                   bits_transmitted, total_queue_occupancy, last_event_time, psvars,
                   nsched>>

(* ------------------- LeakyBucketSimulator handlers -------------------- *)
\* mutant of next_tick_time: the tick period is not used
next_tick_time_unit(now) == now + 1

\* mutant of next_tick_time: every other tick is skipped
next_tick_time_doubled(now) == now + 2 * tick_period

\* next_tick_time = self.current_time + self.tick_period
next_tick_time(now) == now + tick_period

LB_packet_arrival_event(gap) ==
    /\ model = "LB"
    /\ Leaky_dispatch(EVENT_PACKET_ARRIVAL)
    /\ packets_arrived' = packets_arrived + 1
    /\ IF Len(packet_queue) < bucket_size
       THEN /\ packet_queue' = Append(packet_queue, current_time')
            /\ UNCHANGED packets_dropped
       ELSE /\ packets_dropped' = packets_dropped + 1
            /\ UNCHANGED packet_queue
    /\ event_queue' = schedule_if_before_horizon(heappop(event_queue)[2],
                          current_time' + gap, EVENT_PACKET_ARRIVAL)
    /\ nsched' = nsched + Len(event_queue') - Len(heappop(event_queue)[2])
    /\ UNCHANGED <<pc, bit_counter, tokvars, packets_transmitted, bits_transmitted,
                   psvars>>

LB_clock_tick_event ==
    /\ model = "LB"
    /\ Leaky_dispatch(EVENT_CLOCK_TICK)
    /\ IF Len(packet_queue) > 0
       THEN /\ packet_queue' = Tail(packet_queue)
            /\ packets_transmitted' = packets_transmitted + 1
       ELSE UNCHANGED <<packet_queue, packets_transmitted>>
    /\ event_queue' = schedule_if_before_horizon(heappop(event_queue)[2],
                          next_tick_time(current_time'), EVENT_CLOCK_TICK)
    /\ nsched' = nsched + Len(event_queue') - Len(heappop(event_queue)[2])
    /\ UNCHANGED <<pc, bit_counter, tokvars, packets_arrived, packets_dropped,
                   bits_transmitted, psvars>>

(* ------------------ BitCountingLeakyBucket handlers ------------------- *)
Packet(arrival_time, size) == [arrival_time |-> arrival_time, size |-> size]

BLB_packet_arrival_event(size, gap) ==
    /\ model = "BLB"
    /\ Leaky_dispatch(EVENT_PACKET_ARRIVAL)
    /\ packets_arrived' = packets_arrived + 1
    /\ IF Len(packet_queue) < bucket_size
       THEN /\ packet_queue' = Append(packet_queue, Packet(current_time', size))
            /\ UNCHANGED packets_dropped
       ELSE /\ packets_dropped' = packets_dropped + 1
            /\ UNCHANGED packet_queue
    /\ event_queue' = schedule_if_before_horizon(heappop(event_queue)[2],
                          current_time' + gap, EVENT_PACKET_ARRIVAL)
    /\ nsched' = nsched + Len(event_queue') - Len(heappop(event_queue)[2])
    /\ UNCHANGED <<pc, bit_counter, tokvars, packets_transmitted, bits_transmitted,
                   psvars>>

\* mutant of the transmission loop: it runs while any budget is left
RECURSIVE transmit_while_budget_positive(_, _, _, _)
transmit_while_budget_positive(queue, budget, sent, bits) ==
    IF Len(queue) > 0 /\ budget > 0
    THEN transmit_while_budget_positive(Tail(queue), budget - Head(queue).size,
                                        sent + 1, bits + Head(queue).size)
    ELSE <<queue, budget, sent, bits>>

\* mutant of the transmission loop: a packet as large as the budget is not sent
RECURSIVE transmit_while_budget_exceeds(_, _, _, _)
transmit_while_budget_exceeds(queue, budget, sent, bits) ==
    IF Len(queue) > 0 /\ budget > Head(queue).size
    THEN transmit_while_budget_exceeds(Tail(queue), budget - Head(queue).size,
                                       sent + 1, bits + Head(queue).size)
    ELSE <<queue, budget, sent, bits>>

\* the transmission loop of clock_tick_event / try_transmit_packets:
\* <<queue, budget, packets sent, bits sent>> when the loop stops
RECURSIVE transmit_while_possible(_, _, _, _)
transmit_while_possible(queue, budget, sent, bits) ==
    IF Len(queue) > 0 /\ budget >= Head(queue).size
    THEN transmit_while_possible(Tail(queue), budget - Head(queue).size,
                                 sent + 1, bits + Head(queue).size)
    ELSE <<queue, budget, sent, bits>>

\* mutant of clock_tick_event: the residue of the previous tick is carried over
BLB_clock_tick_event_carry_over ==
    /\ model = "BLB"
    /\ Leaky_dispatch(EVENT_CLOCK_TICK)
    /\ LET r == transmit_while_possible(packet_queue, bit_counter + n, 0, 0)
       IN  /\ packet_queue' = r[1]
           /\ bit_counter' = r[2]
           /\ packets_transmitted' = packets_transmitted + r[3]
           /\ bits_transmitted' = bits_transmitted + r[4]
    /\ event_queue' = schedule_if_before_horizon(heappop(event_queue)[2],
                          current_time' + tick_period, EVENT_CLOCK_TICK)
    /\ nsched' = nsched + Len(event_queue') - Len(heappop(event_queue)[2])
    /\ UNCHANGED <<pc, tokvars, packets_arrived, packets_dropped, psvars>>

BLB_clock_tick_event ==
    /\ model = "BLB"
    /\ Leaky_dispatch(EVENT_CLOCK_TICK)
    /\ LET r == transmit_while_possible(packet_queue, n, 0, 0)
       IN  /\ packet_queue' = r[1]
           /\ bit_counter' = r[2]
           /\ packets_transmitted' = packets_transmitted + r[3]
           /\ bits_transmitted' = bits_transmitted + r[4]
    /\ event_queue' = schedule_if_before_horizon(heappop(event_queue)[2],
                          current_time' + tick_period, EVENT_CLOCK_TICK)
    /\ nsched' = nsched + Len(event_queue') - Len(heappop(event_queue)[2])
    /\ UNCHANGED <<pc, tokvars, packets_arrived, packets_dropped, psvars>>

(* ----------------- token buckets: run and its event loop -------------- *)
\* TokenBucketSimulator(token_bucket_size, data_bucket_size, token_rate,
\* arrival_rate, run_time): tick_period stands for 1 / token_rate
TBParams ==
    {Parameters("TB", b, t, x, 0, {}, tb, 0, 0, 0) :
        b \in 0..MaxBucket, t \in 1..MaxRunTime, x \in Periods, tb \in 0..MaxBucket}

\* BitCountingTokenBucket(token_bucket_size, data_bucket_size, token_rate,
\* arrival_rate, packet_sizes, run_time): token_rate in bits per time unit
BTBParams ==
    {Parameters("BTB", b, t, 0, 0, s, tb, tr, 0, 0) :
        b \in 1..MaxBucket, t \in 2..MaxRunTime, s \in PacketSizeSets,
        tb \in TokenBucketBits, tr \in BitRates}

TB_run_start(first_arrival) ==
    /\ model = "TB"
    /\ pc = "new"
    /\ event_queue' =
           schedule_event(
               schedule_event(event_queue,
                   Event(first_arrival, EVENT_PACKET_ARRIVAL, nsched, NoPacket)),
               Event(tick_period, EVENT_TOKEN_GENERATION, nsched + 1, NoPacket))
    /\ nsched' = nsched + 2
    /\ pc' = "loop"
    /\ UNCHANGED <<current_time, packet_queue, bit_counter, tokvars, packets_arrived,
                   packets_dropped, packets_transmitted, bits_transmitted,
                   total_queue_occupancy, last_event_time, psvars>>

\* mutant of run: a first TOKEN_GENERATION event is scheduled as in the
\* packet-counting token bucket
BTB_run_start_token_tick(first_arrival) ==
    /\ model = "BTB"
    /\ pc = "new"
    /\ event_queue' =
           schedule_event(
               schedule_event(event_queue,
                   Event(first_arrival, EVENT_PACKET_ARRIVAL, nsched, NoPacket)),
               Event(1, EVENT_TOKEN_GENERATION, nsched + 1, NoPacket))
    /\ nsched' = nsched + 2
    /\ token_bucket' = token_bucket_size
    /\ last_token_update' = 0
    /\ pc' = "loop"
    /\ UNCHANGED <<current_time, packet_queue, bit_counter, packets_arrived,
                   packets_dropped, packets_transmitted, bits_transmitted,
                   total_queue_occupancy, last_event_time, psvars>>

BTB_run_start(first_arrival) ==
    /\ model = "BTB"
    /\ pc = "new"
    /\ event_queue' = schedule_event(event_queue,
                          Event(first_arrival, EVENT_PACKET_ARRIVAL, nsched, NoPacket))
    /\ nsched' = nsched + 1
    /\ token_bucket' = token_bucket_size
    /\ last_token_update' = 0
    /\ pc' = "loop"
    /\ UNCHANGED <<current_time, packet_queue, bit_counter, packets_arrived,
                   packets_dropped, packets_transmitted, bits_transmitted,
                   total_queue_occupancy, last_event_time, psvars>>

\* one iteration of the event loop that dispatches an event: the pop, the
\* horizon check, the statistics update and the clock
Token_dispatch(event_type) ==
    /\ model \in {"TB", "BTB"}
    /\ pc = "loop"
    /\ event_queue # <<>>
    /\ heappop(event_queue)[1].event_type = event_type
    /\ ~(heappop(event_queue)[1].time > run_time)
    /\ update_statistics(current_time)
    /\ current_time' = heappop(event_queue)[1].time

\* mutant of update_tokens: the level is not clamped to token_bucket_size
update_tokens_unclamped(level, now) == level + (now - last_token_update) * token_rate

\* mutant of update_tokens: the elapsed time adds nothing
update_tokens_not_accrued(level, now) == level

\* update_tokens(current_time): the token level after the lazy accrual
update_tokens(level, now) ==
    LET time_diff == now - last_token_update
        tokens_to_add == time_diff * token_rate
    IN  IF level + tokens_to_add < token_bucket_size
        THEN level + tokens_to_add ELSE token_bucket_size

\* the statements after the loop: current_time = run_time, update_tokens (BTB
\* only), update_statistics
Token_run_finish ==
    /\ current_time' = run_time
    /\ IF model = "BTB"
       THEN /\ token_bucket' = update_tokens(token_bucket, run_time)
            /\ last_token_update' = run_time
       ELSE UNCHANGED tokvars
    /\ update_statistics(run_time)
    /\ pc' = "done"

\* the popped event is past the horizon: break, then the statements after the loop
Token_run_break ==
    /\ model \in {"TB", "BTB"}
    /\ pc = "loop"
    /\ event_queue # <<>>
    /\ heappop(event_queue)[1].time > run_time
    /\ event_queue' = heappop(event_queue)[2]
    /\ Token_run_finish
    /\ UNCHANGED <<packet_queue, bit_counter, packets_arrived, packets_dropped,
                   packets_transmitted, bits_transmitted, psvars, nsched>>

\* the event queue is empty: the loop ends, then the statements after the loop
Token_run_exit ==
    /\ model \in {"TB", "BTB"}
    /\ pc = "loop"
    /\ event_queue = <<>>
    /\ Token_run_finish
    /\ UNCHANGED <<event_queue, packet_queue, bit_counter, packets_arrived,
                   packets_dropped, packets_transmitted, bits_transmitted, psvars,
                   nsched>>

(* ------------------- TokenBucketSimulator handlers -------------------- *)
\* mutant of try_transmit_packet: the transmission is not counted
RECURSIVE try_transmit_packet_uncounted(_, _, _)
try_transmit_packet_uncounted(queue, tokens, sent) ==
    IF Len(queue) > 0 /\ tokens > 0
    THEN try_transmit_packet_uncounted(Tail(queue), tokens - 1, sent)
    ELSE <<queue, tokens, sent>>

\* mutant of try_transmit_packet: the loop body is never entered
try_transmit_packet_skipped(queue, tokens, sent) == <<queue, tokens, sent>>

\* mutant of try_transmit_packet: a transmission does not consume the token
RECURSIVE try_transmit_packet_token_kept(_, _, _)
try_transmit_packet_token_kept(queue, tokens, sent) ==
    IF Len(queue) > 0 /\ tokens > 0
    THEN try_transmit_packet_token_kept(Tail(queue), tokens, sent + 1)
    ELSE <<queue, tokens, sent>>

\* try_transmit_packet: <<data bucket, tokens, packets sent>> when the loop stops
RECURSIVE try_transmit_packet(_, _, _)
try_transmit_packet(queue, tokens, sent) ==
    IF Len(queue) > 0 /\ tokens > 0
    THEN try_transmit_packet(Tail(queue), tokens - 1, sent + 1)
    ELSE <<queue, tokens, sent>>

\* mutant of packet_arrival_event: at a full bucket the arriving packet pushes
\* out the packet at the tail
TB_packet_arrival_event_push_out(gap) ==
    /\ model = "TB"
    /\ Token_dispatch(EVENT_PACKET_ARRIVAL)
    /\ packets_arrived' = packets_arrived + 1
    /\ IF Len(packet_queue) < bucket_size
       THEN LET r == try_transmit_packet(Append(packet_queue, current_time'),
                                         token_bucket, 0)
            IN  /\ packet_queue' = r[1]
                /\ token_bucket' = r[2]
                /\ packets_transmitted' = packets_transmitted + r[3]
                /\ UNCHANGED packets_dropped
       ELSE /\ packets_dropped' = packets_dropped + 1
            /\ packet_queue' =
                   IF packet_queue = <<>> THEN <<>>
                   ELSE Append(SubSeq(packet_queue, 1, Len(packet_queue) - 1),
                               current_time')
            /\ UNCHANGED <<token_bucket, packets_transmitted>>
    /\ event_queue' = schedule_if_before_horizon(heappop(event_queue)[2],
                          current_time' + gap, EVENT_PACKET_ARRIVAL)
    /\ nsched' = nsched + Len(event_queue') - Len(heappop(event_queue)[2])
    /\ UNCHANGED <<pc, bit_counter, last_token_update, bits_transmitted, psvars>>

TB_packet_arrival_event(gap) ==
    /\ model = "TB"
    /\ Token_dispatch(EVENT_PACKET_ARRIVAL)
    /\ packets_arrived' = packets_arrived + 1
    /\ IF Len(packet_queue) < bucket_size
       THEN LET r == try_transmit_packet(Append(packet_queue, current_time'),
                                         token_bucket, 0)
            IN  /\ packet_queue' = r[1]
                /\ token_bucket' = r[2]
                /\ packets_transmitted' = packets_transmitted + r[3]
                /\ UNCHANGED packets_dropped
       ELSE /\ packets_dropped' = packets_dropped + 1
            /\ UNCHANGED <<packet_queue, token_bucket, packets_transmitted>>
    /\ event_queue' = schedule_if_before_horizon(heappop(event_queue)[2],
                          current_time' + gap, EVENT_PACKET_ARRIVAL)
    /\ nsched' = nsched + Len(event_queue') - Len(heappop(event_queue)[2])
    /\ UNCHANGED <<pc, bit_counter, last_token_update, bits_transmitted, psvars>>

\* mutant of the token addition: the capacity is not tested
add_token_unbounded(level) == level + 1

\* "add token to bucket if not full"
add_token(level) == IF level < token_bucket_size THEN level + 1 ELSE level

TB_token_generation_event ==
    /\ model = "TB"
    /\ Token_dispatch(EVENT_TOKEN_GENERATION)
    /\ LET r == try_transmit_packet(packet_queue, add_token(token_bucket), 0)
       IN  /\ packet_queue' = r[1]
           /\ token_bucket' = r[2]
           /\ packets_transmitted' = packets_transmitted + r[3]
    /\ event_queue' = schedule_if_before_horizon(heappop(event_queue)[2],
                          current_time' + tick_period, EVENT_TOKEN_GENERATION)
    /\ nsched' = nsched + Len(event_queue') - Len(heappop(event_queue)[2])
    /\ UNCHANGED <<pc, bit_counter, last_token_update, packets_arrived,
                   packets_dropped, bits_transmitted, psvars>>

(* ------------------ BitCountingTokenBucket handlers ------------------- *)
\* mutant of try_transmit_packets: the bits are counted, the packet is not
RECURSIVE try_transmit_packets_uncounted(_, _, _, _)
try_transmit_packets_uncounted(queue, tokens, sent, bits) ==
    IF Len(queue) > 0 /\ tokens >= Head(queue).size
    THEN try_transmit_packets_uncounted(Tail(queue), tokens - Head(queue).size,
                                        sent, bits + Head(queue).size)
    ELSE <<queue, tokens, sent, bits>>

\* mutant of try_transmit_packets: a transmission does not consume its tokens
RECURSIVE try_transmit_packets_tokens_kept(_, _, _, _)
try_transmit_packets_tokens_kept(queue, tokens, sent, bits) ==
    IF Len(queue) > 0 /\ tokens >= Head(queue).size
    THEN try_transmit_packets_tokens_kept(Tail(queue), tokens, sent + 1,
                                          bits + Head(queue).size)
    ELSE <<queue, tokens, sent, bits>>

\* try_transmit_packets: <<data bucket, tokens, packets sent, bits sent>>
RECURSIVE try_transmit_packets(_, _, _, _)
try_transmit_packets(queue, tokens, sent, bits) ==
    IF Len(queue) > 0 /\ tokens >= Head(queue).size
    THEN try_transmit_packets(Tail(queue), tokens - Head(queue).size,
                              sent + 1, bits + Head(queue).size)
    ELSE <<queue, tokens, sent, bits>>

BTB_packet_arrival_event(packet_size, gap) ==
    /\ model = "BTB"
    /\ Token_dispatch(EVENT_PACKET_ARRIVAL)
    /\ packets_arrived' = packets_arrived + 1
    /\ last_token_update' = current_time'
    /\ IF Len(packet_queue) < bucket_size
       THEN LET r == try_transmit_packets(
                         Append(packet_queue, Packet(current_time', packet_size)),
                         update_tokens(token_bucket, current_time'), 0, 0)
            IN  /\ packet_queue' = r[1]
                /\ token_bucket' = r[2]
                /\ packets_transmitted' = packets_transmitted + r[3]
                /\ bits_transmitted' = bits_transmitted + r[4]
                /\ UNCHANGED packets_dropped
       ELSE /\ packets_dropped' = packets_dropped + 1
            /\ token_bucket' = update_tokens(token_bucket, current_time')
            /\ UNCHANGED <<packet_queue, packets_transmitted, bits_transmitted>>
    /\ event_queue' = schedule_if_before_horizon(heappop(event_queue)[2],
                          current_time' + gap, EVENT_PACKET_ARRIVAL)
    /\ nsched' = nsched + Len(event_queue') - Len(heappop(event_queue)[2])
    /\ UNCHANGED <<pc, bit_counter, psvars>>

(* ----------------------- PacketSwitchSimulator ------------------------ *)
\* PacketSwitchSimulator(arrival_rate, mean_packet_size, link_rate, run_length).
\* A sampled packet size is a multiple k * link_rate, so that the service time
\* size / link_rate is the integer k.
PSParams ==
    {Parameters("PS", 0, 0, 0, 0, {}, 0, 0, rl, lr) :
        rl \in 1..MaxRunLength, lr \in LinkRates}

\* Packet(arrival_time, size) of the packet switch; start_service_time = -1 is None.
\* The identity of the object is id, the number of the ARRIVAL event that carries it.
SwitchPacket(id, arrival_time, size) ==
    [id |-> id, arrival_time |-> arrival_time, size |-> size, start_service_time |-> -1]

\* the switch fields start_service writes, given as a record
ServiceState(queue, heap, busy, in_service, seq) ==
    [packet_queue |-> queue, event_queue |-> heap, server_busy |-> busy,
     packet_in_service |-> in_service, nsched |-> seq]

\* mutant of start_service: server_busy is not set
start_service_not_busy(st, now) ==
    IF Len(st.packet_queue) = 0
    THEN st
    ELSE LET packet == [Head(st.packet_queue) EXCEPT !.start_service_time = now]
             service_time == packet.size \div link_rate
             departure_time == now + service_time
         IN  ServiceState(Tail(st.packet_queue),
                          schedule_event(st.event_queue,
                              Event(departure_time, EVENT_PACKET_DEPARTURE,
                                    st.nsched, packet)),
                          st.server_busy, packet, st.nsched + 1)

\* mutant of start_service: pop() instead of pop(0), the newest packet is served
start_service_newest(st, now) ==
    IF Len(st.packet_queue) = 0
    THEN st
    ELSE LET last == Len(st.packet_queue)
             packet == [st.packet_queue[last] EXCEPT !.start_service_time = now]
             service_time == packet.size \div link_rate
             departure_time == now + service_time
         IN  ServiceState(SubSeq(st.packet_queue, 1, last - 1),
                          schedule_event(st.event_queue,
                              Event(departure_time, EVENT_PACKET_DEPARTURE,
                                    st.nsched, packet)),
                          TRUE, packet, st.nsched + 1)

\* mutant of start_service: the start of service is recorded as the arrival time
start_service_at_arrival(st, now) ==
    IF Len(st.packet_queue) = 0
    THEN st
    ELSE LET packet == [Head(st.packet_queue) EXCEPT
                            !.start_service_time = Head(st.packet_queue).arrival_time]
             service_time == packet.size \div link_rate
             departure_time == now + service_time
         IN  ServiceState(Tail(st.packet_queue),
                          schedule_event(st.event_queue,
                              Event(departure_time, EVENT_PACKET_DEPARTURE,
                                    st.nsched, packet)),
                          TRUE, packet, st.nsched + 1)

\* mutant of start_service: packet_queue[0] instead of pop(0), the packet stays queued
start_service_not_removed(st, now) ==
    IF Len(st.packet_queue) = 0
    THEN st
    ELSE LET packet == [Head(st.packet_queue) EXCEPT !.start_service_time = now]
             service_time == packet.size \div link_rate
             departure_time == now + service_time
         IN  ServiceState(st.packet_queue,
                          schedule_event(st.event_queue,
                              Event(departure_time, EVENT_PACKET_DEPARTURE,
                                    st.nsched, packet)),
                          TRUE, packet, st.nsched + 1)

start_service(st, now) ==
    IF Len(st.packet_queue) = 0
    THEN st
    ELSE LET packet == [Head(st.packet_queue) EXCEPT !.start_service_time = now]
             service_time == packet.size \div link_rate
             departure_time == now + service_time
         IN  ServiceState(Tail(st.packet_queue),
                          schedule_event(st.event_queue,
                              Event(departure_time, EVENT_PACKET_DEPARTURE,
                                    st.nsched, packet)),
                          TRUE, packet, st.nsched + 1)

PS_run_start(first_arrival_time, k) ==
    /\ model = "PS"
    /\ pc = "new"
    /\ event_queue' =
           schedule_event(event_queue,
               Event(first_arrival_time, EVENT_PACKET_ARRIVAL, nsched,
                     SwitchPacket(nsched + 1, first_arrival_time, k * link_rate)))
    /\ nsched' = nsched + 1
    /\ pc' = "loop"
    /\ UNCHANGED <<current_time, packet_queue, bit_counter, tokvars, packets_arrived,
                   packets_dropped, packets_transmitted, bits_transmitted,
                   total_queue_occupancy, last_event_time, psvars>>

\* one iteration of the event loop: the loop condition, the pop and the clock
PS_dispatch(event_type) ==
    /\ model = "PS"
    /\ pc = "loop"
    /\ packets_departed < run_length /\ Len(event_queue) > 0
    /\ heappop(event_queue)[1].event_type = event_type
    /\ current_time' = heappop(event_queue)[1].time

\* mutant of packet_arrival_event: the next arrival is not scheduled
PS_packet_arrival_event_unscheduled(gap, k) ==
    /\ PS_dispatch(EVENT_PACKET_ARRIVAL)
    /\ LET packet == heappop(event_queue)[1].packet
           queued == ServiceState(Append(packet_queue, packet), heappop(event_queue)[2],
                                  server_busy, packet_in_service, nsched)
           st == IF ~server_busy THEN start_service(queued, current_time') ELSE queued
       IN  /\ packets_arrived' = packets_arrived + 1
           /\ packet_queue' = st.packet_queue
           /\ server_busy' = st.server_busy
           /\ packet_in_service' = st.packet_in_service
           /\ event_queue' = st.event_queue
           /\ nsched' = st.nsched
    /\ UNCHANGED <<pc, bit_counter, tokvars, packets_dropped, packets_transmitted,
                   bits_transmitted, total_queue_occupancy, last_event_time,
                   packets_departed, total_delay, total_queue_delay,
                   total_service_time>>

\* mutant of packet_arrival_event: start_service is called whether or not the
\* server is busy
PS_packet_arrival_event_always_starts(gap, k) ==
    /\ PS_dispatch(EVENT_PACKET_ARRIVAL)
    /\ LET packet == heappop(event_queue)[1].packet
           queued == ServiceState(Append(packet_queue, packet), heappop(event_queue)[2],
                                  server_busy, packet_in_service, nsched)
           st == start_service(queued, current_time')
           next_arrival_time == current_time' + gap
           new_packet == SwitchPacket(st.nsched + 1, next_arrival_time, k * link_rate)
       IN  /\ packets_arrived' = packets_arrived + 1
           /\ packet_queue' = st.packet_queue
           /\ server_busy' = st.server_busy
           /\ packet_in_service' = st.packet_in_service
           /\ IF packets_departed < run_length
              THEN /\ event_queue' = schedule_event(st.event_queue,
                                         Event(next_arrival_time, EVENT_PACKET_ARRIVAL,
                                               st.nsched, new_packet))
                   /\ nsched' = st.nsched + 1
              ELSE /\ event_queue' = st.event_queue
                   /\ nsched' = st.nsched
    /\ UNCHANGED <<pc, bit_counter, tokvars, packets_dropped, packets_transmitted,
                   bits_transmitted, total_queue_occupancy, last_event_time,
                   packets_departed, total_delay, total_queue_delay,
                   total_service_time>>

PS_packet_arrival_event(gap, k) ==
    /\ PS_dispatch(EVENT_PACKET_ARRIVAL)
    /\ LET packet == heappop(event_queue)[1].packet
           queued == ServiceState(Append(packet_queue, packet), heappop(event_queue)[2],
                                  server_busy, packet_in_service, nsched)
           st == IF ~server_busy THEN start_service(queued, current_time') ELSE queued
           next_arrival_time == current_time' + gap
           new_packet == SwitchPacket(st.nsched + 1, next_arrival_time, k * link_rate)
       IN  /\ packets_arrived' = packets_arrived + 1
           /\ packet_queue' = st.packet_queue
           /\ server_busy' = st.server_busy
           /\ packet_in_service' = st.packet_in_service
           /\ IF packets_departed < run_length
              THEN /\ event_queue' = schedule_event(st.event_queue,
                                         Event(next_arrival_time, EVENT_PACKET_ARRIVAL,
                                               st.nsched, new_packet))
                   /\ nsched' = st.nsched + 1
              ELSE /\ event_queue' = st.event_queue
                   /\ nsched' = st.nsched
    /\ UNCHANGED <<pc, bit_counter, tokvars, packets_dropped, packets_transmitted,
                   bits_transmitted, total_queue_occupancy, last_event_time,
                   packets_departed, total_delay, total_queue_delay,
                   total_service_time>>

PS_packet_departure_event ==
    /\ PS_dispatch(EVENT_PACKET_DEPARTURE)
    /\ LET packet == heappop(event_queue)[1].packet
           departure_time == current_time'
           total_time_in_system == departure_time - packet.arrival_time
           queue_delay == packet.start_service_time - packet.arrival_time
           service_time == departure_time - packet.start_service_time
           idle == ServiceState(packet_queue, heappop(event_queue)[2], FALSE,
                                NoPacket, nsched)
           st == IF Len(packet_queue) > 0 THEN start_service(idle, current_time')
                 ELSE idle
       IN  /\ packets_departed' = packets_departed + 1
           /\ total_delay' = total_delay + total_time_in_system
           /\ total_queue_delay' = total_queue_delay + queue_delay
           /\ total_service_time' = total_service_time + service_time
           /\ packet_queue' = st.packet_queue
           /\ event_queue' = st.event_queue
           /\ server_busy' = st.server_busy
           /\ packet_in_service' = st.packet_in_service
           /\ nsched' = st.nsched
    /\ UNCHANGED <<pc, bit_counter, tokvars, packets_arrived, packets_dropped,
                   packets_transmitted, bits_transmitted, total_queue_occupancy,
                   last_event_time>>

\* the loop condition fails: run returns
PS_run_exit ==
    /\ model = "PS"
    /\ pc = "loop"
    /\ ~(packets_departed < run_length /\ Len(event_queue) > 0)
    /\ pc' = "done"
    /\ UNCHANGED <<current_time, event_queue, packet_queue, bit_counter, tokvars,
                   packets_arrived, packets_dropped, packets_transmitted,
                   bits_transmitted, total_queue_occupancy, last_event_time, psvars,
                   nsched>>

(* ---------------------------- get_results ----------------------------- *)
\* a / b of Python: a ZeroDivisionError when b = 0, else the quotient num / den
Division(a, b) == [error |-> (b = 0), num |-> a, den |-> b]

\* mutant of get_results: the loss rate is computed without the test for arrivals
get_results_unguarded ==
    [packets_arrived |-> packets_arrived,
     packets_dropped |-> packets_dropped,
     packets_transmitted |-> packets_transmitted,
     bits_transmitted |-> bits_transmitted,
     loss_rate |-> Division(packets_dropped, packets_arrived),
     mean_output_rate |-> Division(packets_transmitted, run_time),
     avg_queue_length |-> Division(total_queue_occupancy, run_time)]

\* get_results of the four bucket models
get_results ==
    [packets_arrived |-> packets_arrived,
     packets_dropped |-> packets_dropped,
     packets_transmitted |-> packets_transmitted,
     bits_transmitted |-> bits_transmitted,
     loss_rate |-> IF packets_arrived > 0
                   THEN Division(packets_dropped, packets_arrived)
                   ELSE Division(0, 1),
     mean_output_rate |-> Division(packets_transmitted, run_time),
     avg_queue_length |-> Division(total_queue_occupancy, run_time)]

(* --------------------------- specification ---------------------------- *)
NoRef == [trace |-> <<>>, results |-> <<>>]

\* an instance constructed with random_seed = None: any sample sequence can follow
Init ==
    /\ params \in LBParams \cup BLBParams \cup TBParams \cup BTBParams \cup PSParams
    /\ Constructed
    /\ zeros = 0
    /\ np_random = 0
    /\ phase = "single"
    /\ other_ops = 0
    /\ trace = <<>>
    /\ ref = NoRef

\* a draw of generate_exponential
Draw(gap) ==
    /\ gap \in Samples(zeros)
    /\ zeros' = IF gap = 0 THEN zeros + 1 ELSE zeros

Next ==
    \/ \E gap \in 0..MaxGap : Draw(gap) /\ Leaky_run_start(gap) /\ UNCHANGED <<params, pairvars>>
    \/ \E gap \in 0..MaxGap : Draw(gap) /\ LB_packet_arrival_event(gap) /\ UNCHANGED <<params, pairvars>>
    \/ LB_clock_tick_event /\ UNCHANGED <<params, zeros, pairvars>>
    \/ \E gap \in 0..MaxGap : \E size \in packet_sizes :
           Draw(gap) /\ BLB_packet_arrival_event(size, gap) /\ UNCHANGED <<params, pairvars>>
    \/ BLB_clock_tick_event /\ UNCHANGED <<params, zeros, pairvars>>
    \/ Leaky_run_break /\ UNCHANGED <<params, zeros, pairvars>>
    \/ Leaky_run_exit /\ UNCHANGED <<params, zeros, pairvars>>
    \/ \E gap \in 0..MaxGap : Draw(gap) /\ TB_run_start(gap) /\ UNCHANGED <<params, pairvars>>
    \/ \E gap \in 0..MaxGap : Draw(gap) /\ BTB_run_start(gap) /\ UNCHANGED <<params, pairvars>>
    \/ \E gap \in 0..MaxGap : Draw(gap) /\ TB_packet_arrival_event(gap) /\ UNCHANGED <<params, pairvars>>
    \/ TB_token_generation_event /\ UNCHANGED <<params, zeros, pairvars>>
    \/ \E gap \in 0..MaxGap : \E size \in packet_sizes :
           Draw(gap) /\ BTB_packet_arrival_event(size, gap) /\ UNCHANGED <<params, pairvars>>
    \/ Token_run_break /\ UNCHANGED <<params, zeros, pairvars>>
    \/ Token_run_exit /\ UNCHANGED <<params, zeros, pairvars>>
    \/ \E gap \in SwitchGaps : \E k \in ServiceTimes :
           Draw(gap) /\ PS_run_start(gap, k) /\ UNCHANGED <<params, pairvars>>
    \/ \E gap \in SwitchGaps : \E k \in ServiceTimes :
           Draw(gap) /\ PS_packet_arrival_event(gap, k) /\ UNCHANGED <<params, pairvars>>
    \/ PS_packet_departure_event /\ UNCHANGED <<params, zeros, pairvars>>
    \/ PS_run_exit /\ UNCHANGED <<params, zeros, pairvars>>

Spec == Init /\ [][Next]_vars

(* ------------- seeded runs: numpy's global generator ------------------ *)
\* np.random is one generator shared by every instance of the process.  Its
\* state is a number below RandomModulus; seeding sets it, every sample reads
\* it and advances it.
RandomModulus == 8

\* np.random.seed(random_seed)
np_random_seed(random_seed) == random_seed % RandomModulus

\* mutant of the seeding in __init__: the generator is not seeded
seeded_generator_skipped(state, random_seed) == state

\* "if random_seed is not None: np.random.seed(random_seed)" of __init__
seeded_generator(state, random_seed) ==
    IF random_seed # -1 THEN np_random_seed(random_seed) ELSE state

\* the generator state after one more sample
next_random(state) == (5 * state + 3) % RandomModulus

\* generate_exponential: the sample drawn in generator state `state`
generate_exponential(state) == state \div 2

\* generate_packet_size: np.random.choice(packet_sizes) in generator state `state`
generate_packet_size(state, sizes) ==
    CHOOSE v \in sizes : Cardinality({w \in sizes : w < v}) = state % Cardinality(sizes)

\* the seeds of the drivers (run_part1a, vary_data_bucket_size, vary_token_bucket_size)
Seeds == {12345, 42, 400430923}

\* the fields get_results reads, and the clock
run_record ==
    [packets_arrived |-> packets_arrived, packets_dropped |-> packets_dropped,
     packets_transmitted |-> packets_transmitted, bits_transmitted |-> bits_transmitted,
     total_queue_occupancy |-> total_queue_occupancy,
     packets_departed |-> packets_departed, total_delay |-> total_delay,
     total_queue_delay |-> total_queue_delay,
     total_service_time |-> total_service_time, current_time |-> current_time]

\* __init__ of a further instance with the same arguments
Reconstructed ==
    /\ pc' = "new"
    /\ current_time' = 0
    /\ event_queue' = <<>>
    /\ packet_queue' = <<>>
    /\ bit_counter' = 0
    /\ token_bucket' = 0
    /\ last_token_update' = 0
    /\ packets_arrived' = 0
    /\ packets_dropped' = 0
    /\ packets_transmitted' = 0
    /\ bits_transmitted' = 0
    /\ total_queue_occupancy' = 0
    /\ last_event_time' = 0
    /\ server_busy' = FALSE
    /\ packet_in_service' = NoPacket
    /\ packets_departed' = 0
    /\ total_delay' = 0
    /\ total_queue_delay' = 0
    /\ total_service_time' = 0
    /\ nsched' = 0
    /\ np_random' = seeded_generator(np_random, params.random_seed)

PairParams ==
    {[p EXCEPT !.random_seed = s] :
        p \in LBParams \cup BLBParams \cup TBParams \cup BTBParams \cup PSParams,
        s \in Seeds}

\* the state after sim = Simulator(..., random_seed = s)
PairInit ==
    /\ params \in PairParams
    /\ Constructed
    /\ zeros = 0
    /\ \E before \in 0..(RandomModulus - 1) :
           np_random = seeded_generator(before, params.random_seed)
    /\ phase = "first"
    /\ other_ops = 0
    /\ trace = <<>>
    /\ ref = NoRef

\* the samples a step draws, in the order of the draws
sample1 == np_random
sample2 == next_random(np_random)

\* a step of run that draws `draws` samples and dispatches no event
Undispatched(draws) ==
    /\ np_random' = IF draws = 0 THEN np_random
                    ELSE IF draws = 1 THEN next_random(sample1)
                    ELSE next_random(sample2)
    /\ UNCHANGED <<params, zeros, phase, other_ops, trace, ref>>

\* a step of run that draws `draws` samples and dispatches the earliest event
Dispatched(draws) ==
    /\ np_random' = IF draws = 0 THEN np_random
                    ELSE IF draws = 1 THEN next_random(sample1)
                    ELSE next_random(sample2)
    /\ trace' = Append(trace, <<heappop(event_queue)[1].time,
                                heappop(event_queue)[1].event_type>>)
    /\ UNCHANGED <<params, zeros, phase, other_ops, ref>>

\* the first run is over: its trace and results are kept and a second
\* instance is constructed with the same arguments
SecondConstructed ==
    /\ phase = "first"
    /\ pc = "done"
    /\ ref' = [trace |-> trace, results |-> run_record]
    /\ Reconstructed
    /\ trace' = <<>>
    /\ phase' = "second"
    /\ UNCHANGED <<params, zeros, other_ops>>

\* between the construction of the second instance and its run, another
\* instance is constructed with random_seed = s
OtherConstructed(s) ==
    /\ phase = "second"
    /\ pc = "new"
    /\ other_ops < MaxOtherOps
    /\ np_random' = np_random_seed(s)
    /\ other_ops' = other_ops + 1
    /\ UNCHANGED <<params, simvars, zeros, phase, trace, ref>>

\* between the construction of the second instance and its run, the run of
\* another instance draws a sample
OtherRunDraws ==
    /\ phase = "second"
    /\ pc = "new"
    /\ other_ops < MaxOtherOps
    /\ np_random' = next_random(np_random)
    /\ other_ops' = other_ops + 1
    /\ UNCHANGED <<params, simvars, zeros, phase, trace, ref>>

PairNext ==
    \/ Leaky_run_start(generate_exponential(sample1)) /\ Undispatched(1)
    \/ LB_packet_arrival_event(generate_exponential(sample1)) /\ Dispatched(1)
    \/ LB_clock_tick_event /\ Dispatched(0)
    \/ BLB_packet_arrival_event(generate_packet_size(sample1, packet_sizes),
                                generate_exponential(sample2)) /\ Dispatched(2)
    \/ BLB_clock_tick_event /\ Dispatched(0)
    \/ Leaky_run_break /\ Undispatched(0)
    \/ Leaky_run_exit /\ Undispatched(0)
    \/ TB_run_start(generate_exponential(sample1)) /\ Undispatched(1)
    \/ BTB_run_start(generate_exponential(sample1)) /\ Undispatched(1)
    \/ TB_packet_arrival_event(generate_exponential(sample1)) /\ Dispatched(1)
    \/ TB_token_generation_event /\ Dispatched(0)
    \/ BTB_packet_arrival_event(generate_packet_size(sample1, packet_sizes),
                                generate_exponential(sample2)) /\ Dispatched(2)
    \/ Token_run_break /\ Undispatched(0)
    \/ Token_run_exit /\ Undispatched(0)
    \/ PS_run_start(generate_exponential(sample1), generate_exponential(sample2))
           /\ Undispatched(2)
    \/ PS_packet_arrival_event(generate_exponential(sample1),
                               generate_exponential(sample2)) /\ Dispatched(2)
    \/ PS_packet_departure_event /\ Dispatched(0)
    \/ PS_run_exit /\ Undispatched(0)
    \/ SecondConstructed
    \/ \E s \in Seeds : OtherConstructed(s)
    \/ OtherRunDraws

SpecPair == PairInit /\ [][PairNext]_vars


(* ------------------------------ claims -------------------------------- *)
BucketModels == {"LB", "BLB", "TB", "BTB"}

\* C1: in every model the clock never decreases from one step of run to the
\* next, and every pending event has a time at or after the clock.
C1_DispatchOrder ==
    [][/\ current_time' >= current_time
       /\ \A i \in 1..Len(event_queue') : event_queue'[i].time >= current_time']_vars

\* an event has been dispatched after time 0 while another event of the same
\* time is pending
C1_Witness ==
    /\ pc = "loop"
    /\ current_time > 0
    /\ Len(event_queue) = 2
    /\ event_queue[1].time = current_time

\* C2: the event the loop pops next was scheduled before every other pending
\* event of the same time.
C2_StableTies ==
    event_queue # <<>> =>
        \A i \in 1..Len(event_queue) :
            event_queue[i].time = heappop(event_queue)[1].time =>
                heappop(event_queue)[1].seq <= event_queue[i].seq

\* two events of equal time are pending in the middle of a run
C2_Witness ==
    /\ pc = "loop"
    /\ current_time > 0
    /\ Len(event_queue) = 2
    /\ event_queue[1].time = event_queue[2].time
    /\ event_queue[1].event_type # event_queue[2].event_type

\* C3 as stated: after a completed run of a packet-counting model,
\* arrived = transmitted + dropped.
C3_Original ==
    (pc = "done" /\ model \in {"LB", "TB"}) =>
        packets_arrived = packets_transmitted + packets_dropped

\* C3 amended: after a completed run of a packet-counting model,
\* arrived = transmitted + dropped + the packets still in the bucket.
C3_ConservationAtEnd ==
    (pc = "done" /\ model \in {"LB", "TB"}) =>
        /\ packets_arrived = packets_transmitted + packets_dropped + Len(packet_queue)
        /\ packets_arrived >= packets_transmitted + packets_dropped

\* a completed run with packets transmitted, dropped and left in the bucket
C3_Witness ==
    /\ pc = "done"
    /\ model \in {"LB", "TB"}
    /\ packets_transmitted > 0
    /\ packets_dropped > 0
    /\ Len(packet_queue) > 0

\* C4: in both token bucket models 0 <= token_bucket <= token_bucket_size.
C4_TokenLevelBounds ==
    model \in {"TB", "BTB"} => (0 <= token_bucket /\ token_bucket <= token_bucket_size)

\* a bit-counting run has transmitted and the accrual has refilled the bucket
\* to its capacity
C4_Witness ==
    /\ model = "BTB"
    /\ pc = "done"
    /\ bits_transmitted > 0
    /\ token_bucket_size > 0
    /\ token_bucket = token_bucket_size

\* C5: in the bit-counting leaky bucket no step transmits more than n bits
\* and the bit counter stays within 0..n.
C5_TickBudget ==
    [][model = "BLB" =>
          /\ 0 <= bit_counter /\ bit_counter <= n
          /\ 0 <= bit_counter' /\ bit_counter' <= n
          /\ bits_transmitted' - bits_transmitted <= n]_vars

\* one tick at time 2 has transmitted two packets that use the whole budget
C5_Witness ==
    /\ model = "BLB"
    /\ pc = "loop"
    /\ n = 2
    /\ tick_period = 2
    /\ current_time = 2
    /\ bit_counter = 0
    /\ packets_transmitted = 2
    /\ bits_transmitted = 2

\* C6: in every bucket model dropped <= arrived, get_results gives a loss
\* rate in [0, 1] without a division error, and 0 when nothing arrived.
C6_LossRate ==
    model \in BucketModels =>
        /\ packets_dropped <= packets_arrived
        /\ ~get_results.loss_rate.error
        /\ 0 <= get_results.loss_rate.num
        /\ get_results.loss_rate.num <= get_results.loss_rate.den
        /\ packets_arrived = 0 => get_results.loss_rate.num = 0

\* a completed run in which no packet arrived
C6_Witness ==
    /\ model \in BucketModels
    /\ pc = "done"
    /\ packets_arrived = 0

C8_Determinism ==
    (phase = "second" /\ pc = "done" /\ other_ops = 0) =>
        /\ trace = ref.trace
        /\ run_record = ref.results

\* the second run of a pair is over and has dispatched arrivals
C8_Witness ==
    /\ phase = "second"
    /\ pc = "done"
    /\ other_ops = 0
    /\ Len(trace) >= 3
    /\ packets_arrived >= 2

\* C9 as stated: the results of a seeded instance are the same whether or not
\* another instance is constructed or run between its construction and its run.
C9_Isolation ==
    (phase = "second" /\ pc = "done") => run_record = ref.results

SeededByRun(event) == event.seq < (IF model = "BTB" THEN 1 ELSE 2)

NextEvent == heappop(event_queue)[1]

\* a step of a bucket model's loop that pops an event and runs its handler
HandlerStep(event_type) ==
    /\ model \in BucketModels
    /\ pc = "loop"
    /\ pc' = "loop"
    /\ event_queue # <<>>
    /\ NextEvent.event_type = event_type

\* a step of a bucket model's loop that runs the handler of any event
AnyHandlerStep ==
    \E event_type \in {EVENT_PACKET_ARRIVAL, EVENT_CLOCK_TICK, EVENT_TOKEN_GENERATION} :
        HandlerStep(event_type)

\* C11 as stated: in every bucket model, when the popped event has
\* time >= run_time the loop ends without running a handler, and the queue
\* and the counters are left as they were.
C11_NoHandlerAtHorizon ==
    [][(/\ model \in BucketModels
        /\ pc = "loop"
        /\ event_queue # <<>>
        /\ NextEvent.time >= run_time)
          => /\ pc' = "done"
             /\ UNCHANGED <<packet_queue, packets_arrived, packets_dropped,
                            packets_transmitted, bits_transmitted>>]_vars

\* C12 as stated: in every bucket model, the step that dispatches an event of
\* time t adds (queue length) * (t - time of the previous statistics update)
\* to the occupancy accumulator.
C12_TimeWeightedOccupancy ==
    [][AnyHandlerStep =>
          total_queue_occupancy' =
              total_queue_occupancy
                  + Len(packet_queue) * (NextEvent.time - last_event_time)]_vars

\* C13 as stated: in every bucket model the statistics timestamp never
\* decreases and, after an event has been processed, equals that event's time.
C13_StatisticsTimestamp ==
    [][/\ model \in BucketModels => last_event_time' >= last_event_time
       /\ AnyHandlerStep => last_event_time' = NextEvent.time]_vars

(* ------------------ the run loop as a running program ----------------- *)
\* run is sequential code: a loop iteration that can be executed is executed
SpecFair == Init /\ [][Next]_vars /\ WF_vars(Next)

\* C14: in the packet switch the event queue is never empty while
\* packets_departed < run_length, run returns, and when it has returned
\* packets_departed = run_length.
C14_SwitchTermination ==
    /\ []((model = "PS" /\ pc = "loop" /\ packets_departed < run_length)
              => event_queue # <<>>)
    /\ []((model = "PS" /\ pc = "done") => packets_departed = run_length)
    /\ <>(model = "PS" => pc = "done")

\* a run of two departures has returned with a packet still waiting: the
\* offered load was above the service rate
C14_Witness ==
    /\ model = "PS"
    /\ pc = "done"
    /\ run_length = 2
    /\ packets_departed = 2
    /\ Len(packet_queue) > 0

(* --------- constructor arguments outside the documented domain -------- *)
\* No __init__ tests its arguments: a negative bucket_size, a run_time of 0 and
\* an empty packet_sizes list are stored as they are given.
UnvalidatedParams ==
    {Parameters("LB", -1, t, x, 0, {}, 0, 0, 0, 0) : t \in 1..MaxRunTime, x \in Periods}
    \cup {Parameters("LB", b, 0, x, 0, {}, 0, 0, 0, 0) : b \in 0..MaxBucket, x \in Periods}
    \cup {Parameters("TB", -1, t, x, 0, {}, tb, 0, 0, 0) :
             t \in 1..MaxRunTime, x \in Periods, tb \in 0..MaxBucket}
    \cup {Parameters("BLB", b, t, x, r, {}, 0, 0, 0, 0) :
             b \in 1..MaxBucket, t \in 2..MaxRunTime, x \in Periods, r \in BitRates}
    \cup {Parameters("BTB", b, t, 0, 0, {}, tb, tr, 0, 0) :
             b \in 1..MaxBucket, t \in 2..MaxRunTime, tb \in TokenBucketBits,
             tr \in BitRates}

InitUnvalidated ==
    /\ params \in LBParams \cup BLBParams \cup TBParams \cup BTBParams \cup PSParams
                      \cup UnvalidatedParams
    /\ Constructed
    /\ zeros = 0
    /\ np_random = 0
    /\ phase = "single"
    /\ other_ops = 0
    /\ trace = <<>>
    /\ ref = NoRef

\* mutant of packet_arrival_event: the size is sampled before the arrival is counted
BLB_packet_arrival_event_raises_uncounted ==
    /\ model = "BLB"
    /\ Leaky_dispatch(EVENT_PACKET_ARRIVAL)
    /\ packet_sizes = {}
    /\ event_queue' = heappop(event_queue)[2]
    /\ pc' = "error"
    /\ UNCHANGED <<packets_arrived, packet_queue, bit_counter, tokvars, packets_dropped,
                   packets_transmitted, bits_transmitted, psvars, nsched>>

\* packet_arrival_event when packet_sizes is empty: the arrival is counted,
\* then np.random.choice raises ValueError and the exception leaves run
BLB_packet_arrival_event_raises ==
    /\ model = "BLB"
    /\ Leaky_dispatch(EVENT_PACKET_ARRIVAL)
    /\ packet_sizes = {}
    /\ packets_arrived' = packets_arrived + 1
    /\ event_queue' = heappop(event_queue)[2]
    /\ pc' = "error"
    /\ UNCHANGED <<packet_queue, bit_counter, tokvars, packets_dropped,
                   packets_transmitted, bits_transmitted, psvars, nsched>>

BTB_packet_arrival_event_raises ==
    /\ model = "BTB"
    /\ Token_dispatch(EVENT_PACKET_ARRIVAL)
    /\ packet_sizes = {}
    /\ packets_arrived' = packets_arrived + 1
    /\ event_queue' = heappop(event_queue)[2]
    /\ pc' = "error"
    /\ UNCHANGED <<packet_queue, bit_counter, tokvars, packets_dropped,
                   packets_transmitted, bits_transmitted, psvars, nsched>>

NextUnvalidated ==
    \/ Next
    \/ BLB_packet_arrival_event_raises /\ UNCHANGED <<params, zeros, pairvars>>
    \/ BTB_packet_arrival_event_raises /\ UNCHANGED <<params, zeros, pairvars>>

SpecUnvalidated == InitUnvalidated /\ [][NextUnvalidated]_vars

\* the arguments the error taxonomy calls invalid
InvalidParameter ==
    /\ model \in BucketModels
    /\ (bucket_size < 0 \/ run_time <= 0)

\* C15 as stated: an instance with a negative capacity or a non-positive
\* horizon never starts a run, and its readout raises no error.
C15_FailsAtConstruction ==
    InvalidParameter =>
        /\ pc = "new"
        /\ pc = "done" => /\ ~get_results.mean_output_rate.error
                          /\ ~get_results.avg_queue_length.error

\* a step that pops an ARRIVAL of a bit-counting model whose packet_sizes is empty
EmptyDomainArrival ==
    /\ model \in {"BLB", "BTB"}
    /\ packet_sizes = {}
    /\ pc = "loop"
    /\ event_queue # <<>>
    /\ NextEvent.event_type = EVENT_PACKET_ARRIVAL
    /\ NextEvent.time < run_time

\* C16 as stated: the arrival fails with an error and is not counted as
\* arrived, enqueued, dropped or transmitted.
C16_Original ==
    [][EmptyDomainArrival =>
          /\ pc' = "error"
          /\ UNCHANGED <<packets_arrived, packet_queue, packets_dropped,
                         packets_transmitted, bits_transmitted>>]_vars

\* C16 amended: the arrival fails with an error after it has been counted in
\* packets_arrived; it is not enqueued, dropped or transmitted, no further
\* event is scheduled, and the run does not continue.
C16_EmptyDomain ==
    [][/\ EmptyDomainArrival =>
             /\ pc' = "error"
             /\ packets_arrived' = packets_arrived + 1
             /\ event_queue' = heappop(event_queue)[2]
             /\ UNCHANGED <<packet_queue, packets_dropped, packets_transmitted,
                            bits_transmitted>>
       /\ pc = "error" => pc' = "error"]_vars

\* the first arrival of a run with an empty packet_sizes has raised
C16_Witness ==
    /\ model \in {"BLB", "BTB"}
    /\ packet_sizes = {}
    /\ pc = "error"
    /\ packets_arrived = 1
    /\ packet_queue = <<>>

\* the arrival time of an element of packet_queue: the packet-counting models
\* queue the arrival time itself, the bit-counting models a Packet
ArrivalTimeOf(packet) ==
    IF model \in {"BLB", "BTB"} THEN packet.arrival_time ELSE packet

\* C17: an ARRIVAL at a full bucket adds one to packets_arrived and to the
\* drop counter and leaves the queue and the transmission counters alone; a
\* tick on an empty queue leaves the queue and all counters alone; no step
\* ends in an error; a packet enters the queue only in the ARRIVAL step of
\* its own arrival time, when the bucket has room.
C17_OrdinaryStates ==
    [][/\ (HandlerStep(EVENT_PACKET_ARRIVAL) /\ Len(packet_queue) >= bucket_size)
             => /\ packets_arrived' = packets_arrived + 1
                /\ packets_dropped' = packets_dropped + 1
                /\ UNCHANGED <<packet_queue, packets_transmitted, bits_transmitted>>
       /\ ((HandlerStep(EVENT_CLOCK_TICK) \/ HandlerStep(EVENT_TOKEN_GENERATION))
               /\ packet_queue = <<>>)
             => UNCHANGED <<packet_queue, packets_arrived, packets_dropped,
                            packets_transmitted, bits_transmitted>>
       /\ model \in BucketModels => pc' \in {"new", "loop", "done"}
       /\ model \in BucketModels =>
             \A i \in 1..Len(packet_queue') :
                 \/ \E j \in 1..Len(packet_queue) : packet_queue[j] = packet_queue'[i]
                 \/ /\ HandlerStep(EVENT_PACKET_ARRIVAL)
                    /\ Len(packet_queue) < bucket_size
                    /\ ArrivalTimeOf(packet_queue'[i]) = NextEvent.time]_vars

\* an arrival has been dropped at a full bucket that holds an older packet
C17_Witness ==
    /\ model = "TB"
    /\ pc = "loop"
    /\ bucket_size > 0
    /\ Len(packet_queue) = bucket_size
    /\ packets_dropped > 0
    /\ packets_transmitted = 0
    /\ current_time > packet_queue[Len(packet_queue)]

\* the samples an arrival handler draws in a seeded run: the bit-counting
\* models draw the packet size before the inter-arrival time
ArrivalGap ==
    IF model \in {"BLB", "BTB"}
    THEN generate_exponential(sample2) ELSE generate_exponential(sample1)

\* what the arrival handler appends to the queue
ArrivingPacket ==
    IF model \in {"BLB", "BTB"}
    THEN Packet(NextEvent.time, generate_packet_size(sample1, packet_sizes))
    ELSE NextEvent.time

ArrivalPending(heap) ==
    \E i \in 1..Len(heap) : heap[i].event_type = EVENT_PACKET_ARRIVAL

\* C18: in the four bucket models every ARRIVAL either appends the packet to
\* the tail of the queue (exactly when the queue is shorter than the
\* capacity; the token buckets may then transmit from the head) or adds one
\* to the drop counter; the queue is never longer than the capacity; the next
\* ARRIVAL is scheduled, at the sampled time, exactly when that time is
\* below run_time.
C18_Admission ==
    [][/\ model \in BucketModels =>
             (Len(packet_queue) <= bucket_size /\ Len(packet_queue') <= bucket_size)
       /\ HandlerStep(EVENT_PACKET_ARRIVAL) =>
             /\ packets_arrived' = packets_arrived + 1
             /\ IF Len(packet_queue) < bucket_size
                THEN /\ packets_dropped' = packets_dropped
                     /\ LET appended == Append(packet_queue, ArrivingPacket)
                        IN  \E k \in 0..Len(appended) :
                                /\ packet_queue' = SubSeq(appended, k + 1, Len(appended))
                                /\ packets_transmitted' = packets_transmitted + k
                                /\ model \in {"LB", "BLB"} => k = 0
                ELSE /\ packets_dropped' = packets_dropped + 1
                     /\ packet_queue' = packet_queue
             /\ ArrivalPending(event_queue') <=> (NextEvent.time + ArrivalGap < run_time)
             /\ \A i \in 1..Len(event_queue') :
                    event_queue'[i].event_type = EVENT_PACKET_ARRIVAL
                        => event_queue'[i].time = NextEvent.time + ArrivalGap]_vars

\* an arrival has been dropped at a full bucket and the next arrival is pending
C18_Witness ==
    /\ model \in BucketModels
    /\ pc = "loop"
    /\ bucket_size > 0
    /\ Len(packet_queue) = bucket_size
    /\ packets_dropped > 0
    /\ ArrivalPending(event_queue)

\* the times of the CLOCK_TICK events pending in a heap
TickTimes(heap) ==
    {heap[i].time : i \in {j \in 1..Len(heap) : heap[j].event_type = EVENT_CLOCK_TICK}}

TickCount(heap) ==
    Cardinality({j \in 1..Len(heap) : heap[j].event_type = EVENT_CLOCK_TICK})

RECURSIVE SizeSum(_)
SizeSum(packets) ==
    IF packets = <<>> THEN 0 ELSE Head(packets).size + SizeSum(Tail(packets))

\* C20: a CLOCK_TICK of the bit-counting leaky bucket removes a prefix of the
\* queue whose sizes sum to at most n, leaves bit_counter at n minus that sum
\* whatever the counter was before, counts the removed packets and their
\* bits, and stops with the queue empty or its head larger than the counter.
C20_BitCountingTick ==
    [][(model = "BLB" /\ HandlerStep(EVENT_CLOCK_TICK)) =>
          \E k \in 0..Len(packet_queue) :
              LET removed == SubSeq(packet_queue, 1, k)
              IN  /\ packet_queue' = SubSeq(packet_queue, k + 1, Len(packet_queue))
                  /\ SizeSum(removed) <= n
                  /\ bit_counter' = n - SizeSum(removed)
                  /\ packets_transmitted' = packets_transmitted + k
                  /\ bits_transmitted' = bits_transmitted + SizeSum(removed)
                  /\ \/ packet_queue' = <<>>
                     \/ Head(packet_queue').size > bit_counter']_vars

\* a tick has transmitted a packet of one bit and stopped at a head of two
\* bits with one bit of budget left; the tick before it had left a residue
C20_Witness ==
    /\ model = "BLB"
    /\ pc = "loop"
    /\ n = 2
    /\ bit_counter = 1
    /\ packets_transmitted = 1
    /\ bits_transmitted = 1
    /\ packet_queue # <<>>
    /\ Head(packet_queue).size = 2
    /\ current_time > 0

\* C21: in the packet-counting token bucket no packet waits in the data
\* bucket while a token is available.
C21_NoWaitingWithToken ==
    model = "TB" => ~(Len(packet_queue) > 0 /\ token_bucket > 0)

\* a token tick has transmitted a waiting packet and another one still waits
C21_Witness ==
    /\ model = "TB"
    /\ pc = "loop"
    /\ token_bucket_size > 0
    /\ packets_transmitted > 0
    /\ Len(packet_queue) > 0
    /\ token_bucket = 0

\* the times of the TOKEN_GENERATION events pending in a heap
TokenTimes(heap) ==
    {heap[i].time :
        i \in {j \in 1..Len(heap) : heap[j].event_type = EVENT_TOKEN_GENERATION}}

TokenCount(heap) ==
    Cardinality({j \in 1..Len(heap) : heap[j].event_type = EVENT_TOKEN_GENERATION})

\* C22: in the packet-counting token bucket run starts the token ticks at
\* 1/token_rate; a tick is dispatched only at a positive multiple of the
\* period, adds one token when the level is below token_bucket_size and none
\* otherwise (tokens spent by its transmissions aside), and leaves the tick
\* of the next multiple pending exactly when that multiple is below
\* run_time; an ARRIVAL leaves the pending tick alone; never more than one
\* TOKEN event is pending.
C22_TokenTick ==
    [][model = "TB" =>
          /\ TokenCount(event_queue) <= 1
          /\ (pc = "new" /\ pc' = "loop") =>
                (TokenTimes(event_queue') = {tick_period} /\ TokenCount(event_queue') = 1)
          /\ HandlerStep(EVENT_TOKEN_GENERATION) =>
                /\ NextEvent.time % tick_period = 0
                /\ NextEvent.time >= tick_period
                /\ token_bucket' + (packets_transmitted' - packets_transmitted) =
                       IF token_bucket < token_bucket_size
                       THEN token_bucket + 1 ELSE token_bucket
                /\ IF NextEvent.time + tick_period < run_time
                   THEN /\ TokenTimes(event_queue') = {NextEvent.time + tick_period}
                        /\ TokenCount(event_queue') = 1
                   ELSE TokenCount(event_queue') = 0
          /\ HandlerStep(EVENT_PACKET_ARRIVAL) =>
                /\ TokenTimes(event_queue') = TokenTimes(event_queue)
                /\ TokenCount(event_queue') = TokenCount(event_queue)]_vars

\* the second token tick has found the token bucket full and added nothing
C22_Witness ==
    /\ model = "TB"
    /\ pc = "loop"
    /\ tick_period = 1
    /\ token_bucket_size = 1
    /\ run_time = 3
    /\ current_time = 2
    /\ token_bucket = 1
    /\ packets_arrived = 0
    /\ TokenCount(event_queue) = 0

\* min(token_bucket_size, level + token_rate * (time of the popped event -
\* last_token_update))
AccruedLevel ==
    LET level == token_bucket + token_rate * (NextEvent.time - last_token_update)
    IN  IF level < token_bucket_size THEN level ELSE token_bucket_size

\* C23: every ARRIVAL of the bit-counting token bucket sets last_token_update
\* to the event time and leaves the token level at the accrued level minus
\* the bits it transmits; when the bucket has room, a waiting head packet is
\* transmitted exactly when its size is within the accrued level.
C23_Accrual ==
    [][(model = "BTB" /\ HandlerStep(EVENT_PACKET_ARRIVAL)) =>
          /\ last_token_update' = NextEvent.time
          /\ token_bucket' = AccruedLevel - (bits_transmitted' - bits_transmitted)
          /\ (packet_queue # <<>> /\ Len(packet_queue) < bucket_size) =>
                (packets_transmitted' > packets_transmitted
                     <=> Head(packet_queue).size <= AccruedLevel)]_vars

\* more bits have been transmitted than the token bucket holds: an arrival
\* after time 0 has spent tokens accrued since the previous arrival
C23_Witness ==
    /\ model = "BTB"
    /\ pc = "loop"
    /\ token_bucket_size > 0
    /\ current_time > 0
    /\ last_token_update = current_time
    /\ bits_transmitted > token_bucket_size

\* C24 as stated: after every dispatched ARRIVAL of the bit-counting token
\* bucket, admitted or dropped, the data bucket is empty or its head packet
\* is larger than the token level.
C24_TransmissionAfterArrival ==
    [][(model = "BTB" /\ HandlerStep(EVENT_PACKET_ARRIVAL)) =>
          \/ packet_queue' = <<>>
          \/ Head(packet_queue').size > token_bucket']_vars

\* C25: in the bit-counting token bucket the event queue holds at most one
\* event and only ARRIVAL events, every dispatched event is an arrival (the
\* number of events dispatched is packets_arrived), and the event an ARRIVAL
\* leaves pending depends on the event time, the sample and run_time only.
C25_NoTokenEvents ==
    [][model = "BTB" =>
          /\ Len(event_queue) <= 1
          /\ \A i \in 1..Len(event_queue) :
                 event_queue[i].event_type = EVENT_PACKET_ARRIVAL
          /\ Len(trace) = packets_arrived
          /\ AnyHandlerStep =>
                /\ HandlerStep(EVENT_PACKET_ARRIVAL)
                /\ packets_arrived' = packets_arrived + 1
                /\ event_queue' =
                       IF NextEvent.time + ArrivalGap < run_time
                       THEN <<Event(NextEvent.time + ArrivalGap,
                                    EVENT_PACKET_ARRIVAL, nsched, NoPacket)>>
                       ELSE <<>>]_vars

\* a run of the bit-counting token bucket has dispatched two arrivals and
\* ended with the event queue empty
C25_Witness ==
    /\ model = "BTB"
    /\ pc = "done"
    /\ Len(trace) = 2
    /\ packets_arrived = 2
    /\ event_queue = <<>>

(* ---------------------- steps of the packet switch -------------------- *)
\* a step of the switch's loop that pops an event and runs its handler
SwitchStep(event_type) ==
    /\ model = "PS"
    /\ pc = "loop"
    /\ pc' = "loop"
    /\ event_queue # <<>>
    /\ NextEvent.event_type = event_type

\* the DEPARTURE events pending in a heap
Departures(heap) ==
    {j \in 1..Len(heap) : heap[j].event_type = EVENT_PACKET_DEPARTURE}

\* the identities of the packets in a queue
QueuedIds(queue) == {queue[j].id : j \in 1..Len(queue)}

\* C26: in the packet switch, a packet that arrives at an idle server goes
\* into service at its arrival time, with a DEPARTURE pending size/link_rate
\* later; server_busy holds iff packet_in_service is set iff one DEPARTURE is
\* pending, and never more than one DEPARTURE is pending.
C26_ServiceStart ==
    [][model = "PS" =>
          /\ server_busy <=> packet_in_service # NoPacket
          /\ server_busy <=> Cardinality(Departures(event_queue)) = 1
          /\ Cardinality(Departures(event_queue)) <= 1
          /\ (SwitchStep(EVENT_PACKET_ARRIVAL) /\ ~server_busy) =>
                /\ server_busy'
                /\ packet_in_service'.id = NextEvent.packet.id
                /\ packet_in_service'.arrival_time = NextEvent.time
                /\ packet_in_service'.start_service_time = NextEvent.time
                /\ packet_queue' = <<>>
                /\ \E j \in Departures(event_queue') :
                       /\ event_queue'[j].packet = packet_in_service'
                       /\ (event_queue'[j].time - NextEvent.time) * link_rate
                              = NextEvent.packet.size]_vars

\* a packet has gone into service on arrival at a server that had been busy
\* and idle again before
C26_Witness ==
    /\ model = "PS"
    /\ pc = "loop"
    /\ packets_departed = 1
    /\ server_busy
    /\ packet_in_service.start_service_time = packet_in_service.arrival_time
    /\ packet_in_service.arrival_time = current_time
    /\ packet_queue = <<>>

\* C27: in the packet switch, packets depart in the order they arrived: a
\* DEPARTURE is for the packet in service, which is older than every packet
\* still queued, the queue is kept in arrival order and an arriving packet is
\* younger than every packet held; the DEPARTURE frees the server and puts
\* the oldest queued packet into service at the same instant iff the queue
\* is non-empty, so the queue is empty whenever the server is idle.
C27_FifoDeparture ==
    [][model = "PS" =>
          /\ packet_queue # <<>> => server_busy
          /\ \A j \in 1..Len(packet_queue) :
                 /\ server_busy => packet_in_service.id < packet_queue[j].id
                 /\ \A k \in 1..Len(packet_queue) :
                        j < k => packet_queue[j].id < packet_queue[k].id
          /\ SwitchStep(EVENT_PACKET_ARRIVAL) =>
                /\ server_busy => packet_in_service.id < NextEvent.packet.id
                /\ \A j \in 1..Len(packet_queue) :
                       packet_queue[j].id < NextEvent.packet.id
          /\ SwitchStep(EVENT_PACKET_DEPARTURE) =>
                /\ server_busy
                /\ NextEvent.packet = packet_in_service
                /\ packets_departed' = packets_departed + 1
                /\ IF packet_queue # <<>>
                   THEN /\ server_busy'
                        /\ packet_in_service' =
                               [Head(packet_queue) EXCEPT
                                    !.start_service_time = NextEvent.time]
                        /\ packet_queue' = Tail(packet_queue)
                   ELSE /\ ~server_busy'
                        /\ packet_in_service' = NoPacket
                        /\ packet_queue' = <<>>]_vars

\* a departure has handed the server to the older of two queued packets
C27_Witness ==
    /\ model = "PS"
    /\ pc = "loop"
    /\ packets_departed = 1
    /\ server_busy
    /\ packet_in_service.start_service_time = current_time
    /\ packet_in_service.arrival_time < current_time
    /\ Len(packet_queue) >= 1

\* C28: in the packet switch, every departing packet has
\* arrival_time <= start_service_time <= departure_time, its recorded total
\* delay is its queue delay plus its service time, and its service time is
\* size/link_rate; in every state total_delay = total_queue_delay +
\* total_service_time and the three totals are non-negative.
C28_DelayAccounting ==
    [][model = "PS" =>
          /\ total_delay = total_queue_delay + total_service_time
          /\ total_delay >= 0
          /\ total_queue_delay >= 0
          /\ total_service_time >= 0
          /\ SwitchStep(EVENT_PACKET_DEPARTURE) =>
                LET packet == NextEvent.packet
                    departure_time == NextEvent.time
                    recorded_total == total_delay' - total_delay
                    recorded_queue == total_queue_delay' - total_queue_delay
                    recorded_service == total_service_time' - total_service_time
                IN  /\ packet.arrival_time <= packet.start_service_time
                    /\ packet.start_service_time <= departure_time
                    /\ recorded_total = departure_time - packet.arrival_time
                    /\ recorded_queue = packet.start_service_time - packet.arrival_time
                    /\ recorded_total = recorded_queue + recorded_service
                    /\ recorded_service * link_rate = packet.size]_vars

\* two packets have departed, one of them after waiting in the queue
C28_Witness ==
    /\ model = "PS"
    /\ packets_departed = 2
    /\ total_queue_delay > 0
    /\ total_service_time > 0
    /\ total_delay = total_queue_delay + total_service_time

\* C29: in the packet switch a packet is held in one place at a time: no
\* packet is twice in packet_queue, the packet in service is not in
\* packet_queue, a packet whose ARRIVAL is still pending is held nowhere, and
\* after its DEPARTURE a packet is neither queued nor in service.
C29_PacketOwnership ==
    [][model = "PS" =>
          /\ Cardinality(QueuedIds(packet_queue)) = Len(packet_queue)
          /\ packet_in_service # NoPacket =>
                 packet_in_service.id \notin QueuedIds(packet_queue)
          /\ \A j \in 1..Len(event_queue) :
                 event_queue[j].event_type = EVENT_PACKET_ARRIVAL =>
                     /\ event_queue[j].packet.id \notin QueuedIds(packet_queue)
                     /\ packet_in_service # NoPacket =>
                            packet_in_service.id # event_queue[j].packet.id
          /\ SwitchStep(EVENT_PACKET_DEPARTURE) =>
                /\ NextEvent.packet.id \notin QueuedIds(packet_queue')
                /\ packet_in_service' # NoPacket =>
                       packet_in_service'.id # NextEvent.packet.id
                /\ \A j \in 1..Len(event_queue') :
                       event_queue'[j].packet # NoPacket =>
                           event_queue'[j].packet.id # NextEvent.packet.id]_vars

\* a packet has been moved from a queue of two into service by a departure
C29_Witness ==
    /\ model = "PS"
    /\ pc = "loop"
    /\ packets_departed >= 1
    /\ packet_in_service # NoPacket
    /\ packet_in_service.arrival_time < packet_in_service.start_service_time
    /\ Len(packet_queue) >= 1
    /\ packet_in_service.id \notin QueuedIds(packet_queue)

\* C30: every run of a bucket model returns, whatever the arrival rate: the
\* event loop is left only when the event queue is empty or the event popped
\* is at or after run_time, and it is eventually left.
C30_BucketTermination ==
    /\ [][(model \in BucketModels /\ pc = "loop" /\ pc' = "done") =>
              \/ event_queue = <<>>
              \/ NextEvent.time >= run_time]_vars
    /\ [](model \in BucketModels => <>(pc = "done"))

\* an overloaded run, with strictly positive inter-arrival samples only, has
\* returned after dropping packets
C30_Witness ==
    /\ model \in BucketModels
    /\ pc = "done"
    /\ zeros = 0
    /\ packets_dropped >= 1
    /\ packets_arrived > packets_transmitted + packets_dropped

\* C31: in every state of each of the four bucket models,
\* packets_arrived = packets_transmitted + packets_dropped + the number of
\* packets in the bucket.
C31_ConservationWithResidue ==
    model \in BucketModels =>
        packets_arrived = packets_transmitted + packets_dropped + Len(packet_queue)

\* a bit-counting token bucket in the middle of a run has transmitted a
\* packet, dropped one and holds one
C31_Witness ==
    /\ model = "BTB"
    /\ pc = "loop"
    /\ packets_transmitted > 0
    /\ packets_dropped > 0
    /\ Len(packet_queue) > 0
    /\ packets_arrived = packets_transmitted + packets_dropped + Len(packet_queue)

(* ------------------------ size of the event queue --------------------- *)
\* the positions of the pending events of one type
Pending(heap, event_type) ==
    {j \in 1..Len(heap) : heap[j].event_type = event_type}

\* C32: in the two leaky buckets and the packet-counting token bucket the
\* event queue holds at most one ARRIVAL and at most one tick event; in the
\* packet switch it holds at most one ARRIVAL and at most one DEPARTURE,
\* however many packets wait; in both cases at most two events.
C32_BoundedEventQueue ==
    /\ model \in {"LB", "BLB"} =>
          /\ Cardinality(Pending(event_queue, EVENT_PACKET_ARRIVAL)) <= 1
          /\ Cardinality(Pending(event_queue, EVENT_CLOCK_TICK)) <= 1
          /\ Pending(event_queue, EVENT_TOKEN_GENERATION) = {}
          /\ Pending(event_queue, EVENT_PACKET_DEPARTURE) = {}
          /\ Len(event_queue) <= 2
    /\ model = "TB" =>
          /\ Cardinality(Pending(event_queue, EVENT_PACKET_ARRIVAL)) <= 1
          /\ Cardinality(Pending(event_queue, EVENT_TOKEN_GENERATION)) <= 1
          /\ Pending(event_queue, EVENT_CLOCK_TICK) = {}
          /\ Pending(event_queue, EVENT_PACKET_DEPARTURE) = {}
          /\ Len(event_queue) <= 2
    /\ model = "PS" =>
          /\ Cardinality(Pending(event_queue, EVENT_PACKET_ARRIVAL)) <= 1
          /\ Cardinality(Pending(event_queue, EVENT_PACKET_DEPARTURE)) <= 1
          /\ Pending(event_queue, EVENT_CLOCK_TICK) = {}
          /\ Pending(event_queue, EVENT_TOKEN_GENERATION) = {}
          /\ Len(event_queue) <= 2

\* the switch has two events pending while two packets wait behind the one
\* in service
C32_Witness ==
    /\ model = "PS"
    /\ pc = "loop"
    /\ Len(event_queue) = 2
    /\ server_busy
    /\ Len(packet_queue) >= 2

\* C33: in every state of the packet switch,
\* packets_arrived = packets_departed + len(packet_queue) + (1 if the server
\* is busy else 0).
C33_SwitchConservation ==
    model = "PS" =>
        packets_arrived = packets_departed + Len(packet_queue)
                              + (IF server_busy THEN 1 ELSE 0)

\* the switch has counted a departure, a packet in service and a waiting one
C33_Witness ==
    /\ model = "PS"
    /\ pc = "loop"
    /\ packets_departed = 1
    /\ server_busy
    /\ Len(packet_queue) = 1
    /\ packets_arrived = 3

\* C34 as stated: in the bit-counting token bucket with every configured
\* packet size <= token_bucket_size, a head packet waiting in a full data
\* bucket is transmitted when an ARRIVAL is dispatched at which the accrued
\* tokens cover it, so the data bucket does not stay full while arrivals
\* keep occurring.
C34_FullBucketProgress ==
    [][(/\ model = "BTB"
        /\ HandlerStep(EVENT_PACKET_ARRIVAL)
        /\ \A size \in packet_sizes : size <= token_bucket_size
        /\ Len(packet_queue) = bucket_size
        /\ AccruedLevel >= Head(packet_queue).size)
          => packets_transmitted' > packets_transmitted]_vars

\* C35: in the bit-counting leaky bucket with every configured packet size
\* <= n, a CLOCK_TICK dispatched at a non-empty queue transmits at least the
\* head packet, so every waiting packet moves at least one position forward
\* per tick (arrivals join at the tail), and a tick transmits nothing only
\* when the queue is empty.
C35_BitCountingProgress ==
    [][(model = "BLB" /\ \A size \in packet_sizes : size <= n) =>
          /\ HandlerStep(EVENT_CLOCK_TICK) =>
                /\ packet_queue # <<>> =>
                      /\ packets_transmitted' >= packets_transmitted + 1
                      /\ \E k \in 1..Len(packet_queue) :
                             packet_queue' =
                                 SubSeq(packet_queue, k + 1, Len(packet_queue))
                /\ packets_transmitted' = packets_transmitted =>
                       packet_queue = <<>>
          /\ HandlerStep(EVENT_PACKET_ARRIVAL) =>
                /\ Len(packet_queue') >= Len(packet_queue)
                /\ SubSeq(packet_queue', 1, Len(packet_queue)) = packet_queue]_vars

\* a tick with a budget of two bits has sent the head packet of two bits and
\* left the packet behind it at the head
C35_Witness ==
    /\ model = "BLB"
    /\ pc = "loop"
    /\ n = 2
    /\ packet_sizes = {2}
    /\ packets_transmitted = 1
    /\ bit_counter = 0
    /\ packets_arrived = 2
    /\ Len(packet_queue) = 1
    /\ Head(packet_queue).arrival_time < current_time

\* C36 as stated: when a run of any bucket model has finished, the intervals
\* integrated into the occupancy accumulator add up to run_time: the
\* statistics timestamp equals run_time.
C36_FullHorizonCoverage ==
    (model \in BucketModels /\ pc = "done") => last_event_time = run_time

\* C37: in the packet-counting token bucket every dispatched event, ARRIVAL
\* or TOKEN tick, transmits at most one packet and each transmission takes
\* one token; tokens start at 0 and only a TOKEN tick adds one, so
\* packets_transmitted + token_bucket never exceeds the number of TOKEN ticks
\* dispatched, the ticks at tick_period, 2 * tick_period, ... up to the
\* clock and before the pending tick.
C37_TokenConservation ==
    [][model = "TB" =>
          /\ pc = "new" => token_bucket = 0 /\ packets_transmitted = 0
          /\ token_bucket >= 0
          /\ (packets_transmitted + token_bucket) * tick_period <= current_time
          /\ \A pending \in TokenTimes(event_queue) :
                 (packets_transmitted + token_bucket + 1) * tick_period <= pending
          /\ HandlerStep(EVENT_PACKET_ARRIVAL) =>
                /\ packets_transmitted' - packets_transmitted \in {0, 1}
                /\ packets_transmitted' + token_bucket'
                       = packets_transmitted + token_bucket
          /\ HandlerStep(EVENT_TOKEN_GENERATION) =>
                /\ packets_transmitted' - packets_transmitted \in {0, 1}
                /\ packets_transmitted' + token_bucket'
                       <= packets_transmitted + token_bucket + 1]_vars

\* a packet that waited for a token has been sent by a TOKEN tick, and a
\* later tick has left a token in the bucket
C37_Witness ==
    /\ model = "TB"
    /\ pc = "loop"
    /\ packets_transmitted = 1
    /\ token_bucket = 1
    /\ packets_arrived >= 1
    /\ packet_queue = <<>>

\* C38: run of the bit-counting token bucket starts with a full token bucket
\* at time 0, and in every state bits_transmitted + token_bucket <=
\* token_bucket_size + token_rate * last_token_update: the bits sent never
\* exceed the initial capacity plus the tokens accrued so far.
C38_OutputBound ==
    [][model = "BTB" =>
          /\ (pc = "new" /\ pc' = "loop") =>
                /\ token_bucket' = token_bucket_size
                /\ last_token_update' = 0
                /\ bits_transmitted' = 0
          /\ bits_transmitted + token_bucket
                 <= token_bucket_size + token_rate * last_token_update
          /\ bits_transmitted
                 <= token_bucket_size + token_rate * last_token_update]_vars

\* a finished run has sent more bits than the bucket holds, and some accrued
\* tokens were lost to the cap
C38_Witness ==
    /\ model = "BTB"
    /\ pc = "done"
    /\ token_bucket_size > 0
    /\ bits_transmitted > token_bucket_size
    /\ bits_transmitted + token_bucket
           < token_bucket_size + token_rate * last_token_update

\* C39: in every state of each bucket model the occupancy accumulator is
\* >= 0 and <= capacity * (statistics timestamp), and the timestamp is at most
\* run_time, so accumulator / run_time never exceeds the bucket capacity.
C39_OccupancyBound ==
    model \in BucketModels =>
        /\ total_queue_occupancy >= 0
        /\ total_queue_occupancy <= bucket_size * last_event_time
        /\ last_event_time >= 0
        /\ last_event_time <= run_time
        /\ total_queue_occupancy <= bucket_size * run_time

\* a finished run whose bucket of two packets was full for some time and less
\* than full at other times
C39_Witness ==
    /\ model \in BucketModels
    /\ pc = "done"
    /\ bucket_size = 2
    /\ total_queue_occupancy > last_event_time
    /\ total_queue_occupancy < bucket_size * last_event_time

=============================================================================
